---- MODULE Spec2Model ----
(***************************************************************************)
(* A state-machine model of the markdown-editor client: the authentication *)
(* context with its axios interceptors and the fetch-based request wrapper,*)
(* the editor page, the Editor component with its debounced auto-save, the *)
(* Search component, the component-level data fetches, the kanban board,   *)
(* the dataview panel, the PDF viewer, the application context, the Reader,*)
(* the route table and the delete dialog of the editor page.  Every        *)
(* component has its own variables, its own                                *)
(* initial predicate and next-state relation, and a specification that     *)
(* leaves the variables of the other components alone.                     *)
(***************************************************************************)
EXTENDS Integers, Sequences, FiniteSets, TLC

VARIABLES
  \* ---- AuthContext / apiService ----
  mounted,        \* AuthProvider's mount effects have run
  storage,        \* localStorage: key -> value (Null when absent)
  user,           \* AuthProvider state `user`
  isLoading,      \* AuthProvider state `isLoading`
  error,          \* AuthProvider state `error`
  route,          \* current router location
  interceptors,   \* tokens captured by the registered axios request interceptors, in registration order
  inflight,       \* requests sent and not yet answered
  \* ---- backend ----
  files,          \* path -> content of the file on the backend
  \* ---- EditorPage ----
  epPath,         \* route parameter filePath (Null when absent)
  epContent,      \* state `content`
  epOriginal,     \* state `originalContent`
  epLoading,      \* state `isLoading`
  epError,        \* state `error`
  epLoads,        \* getFileContent requests sent and not yet answered
  epSeq,          \* number of getFileContent requests sent so far
  epAnswered,     \* the responses that have arrived, in order of arrival (observation only)
  epUnsaved,      \* state `hasUnsavedChanges`
  epPrompt,       \* the flag the registered beforeunload handler closes over
  epSaves,        \* updateFile requests of handleSave sent and not yet answered
  epSaveSeq,      \* number of updateFile requests sent so far
  epRecorded,     \* content of the last load or save that succeeded, {} before the first (observation only)
  \* ---- Editor ----
  edPath,         \* prop filePath (Null when absent)
  edContent,      \* state `content`
  edOriginal,     \* state `originalContent`
  edSaving,       \* state `saving`
  edLoading,      \* state `loading`
  edError,        \* state `error`
  edDebounced,    \* debouncedContent, the value useDebounce returns
  edTimer,        \* the timeout useDebounce has pending: at most one [value, left]
  edLoads,        \* content requests sent and not yet answered
  edSeq,          \* number of content requests sent so far
  edSaves,        \* save requests sent and not yet answered
  edAge,          \* ms since content last changed, up to the delay (observation only)
  edTypedAge,     \* ms since the user last changed the content, up to the delay (observation only)
  edStable,       \* the content value that last stayed unchanged for the whole delay, if any (observation only)
  edLastSave,     \* the save request sent last, if any, as it was sent (observation only)
  \* ---- Search ----
  sQuery,         \* state `query`
  sDebounced,     \* debouncedQuery, the value useDebounce returns
  sTimer,         \* the timeout useDebounce has pending: at most one [value, left]
  sOptions,       \* state `searchOptions`
  sResults,       \* state `results`: the query whose results are shown, if any
  sSuggestions,   \* state `suggestions`: the query whose suggestions are shown, if any
  sIsSearching,   \* state `isSearching`
  sInflight,      \* requests sent and not yet answered
  sAge,           \* ms since query last changed, up to the delay (observation only)
  sStable,        \* the query value that last stayed unchanged for the whole delay, if any (observation only)
  sLastSent,      \* the request sent last, if any, as it was sent (observation only)
  \* ---- the components' request handlers ----
  fPending,       \* requests sent and not yet answered: [handler, attempt]
  fLast,          \* how the last answered request ended, if any
  \* ---- KanbanBoard ----
  kReadOnly,      \* the readOnly prop
  kColumns,       \* column id -> the column's cards, in order
  kLoading,
  kError,
  kInflight,      \* endpoint of /api/kanban -> requests sent and not yet answered
  kLastDrag,      \* how the last drag end was handled, if any (observation only)
  \* ---- DataView ----
  dvContent,      \* the content prop, as a sequence of lexical tokens
  dvPending,      \* TRUE when the effect on [content] has yet to run
  dvQueries,
  dvResults,      \* query id -> result
  dvLoading,
  dvError,
  dvRuns,         \* the runs of executeQueries that have not finished
  dvFinished,     \* the run that finished last, if any (observation only)
  \* ---- PDFViewer ----
  pdfMounted,
  pdfContent,     \* the markdownContent prop
  pdfGenerating,  \* state isGenerating
  pdfUrl,         \* state pdfUrl: no URL, or the URL of a blob
  pdfError,
  pdfInflight,    \* requests to /api/export/pdf sent and not yet answered
  pdfSeq,         \* the number of requests sent so far
  pdfCaptured,    \* the pdfUrl the cleanup of the effect closes over
  pdfCreated,     \* the URLs made by URL.createObjectURL
  pdfRevoked,     \* the URLs given to URL.revokeObjectURL
  \* ---- AppProvider ----
  appTheme,       \* state theme
  appCollapsed,   \* state isLeftNavCollapsed
  appStorage,     \* localStorage, the keys other than token: key -> value (Null when absent)
  \* ---- Reader ----
  rdContent,      \* the content prop
  rdRendered,     \* state renderedContent: the HTML held from the backend
  rdLoading,
  rdError,
  rdInflight,     \* the number of requests to /api/render/markdown not yet answered
  rdDom,          \* the HTML set as innerHTML of the preview, if the preview is rendered
  \* ---- EditorPage, delete ----
  delName,        \* the decoded route parameter filePath, as a sequence of characters
  delDialog,      \* isDeleteDialogOpen
  delInflight,    \* deleteFile requests sent and not yet answered
  delToast        \* the title of the last toast of handleDeleteFile ("none" before the first)

authVars == <<mounted, storage, user, isLoading, error, route, interceptors, inflight>>
epVars == <<epPath, epContent, epOriginal, epLoading, epError, epLoads, epSeq, epAnswered,
           epUnsaved, epPrompt, epSaves, epSaveSeq, epRecorded>>
edVars == <<edPath, edContent, edOriginal, edSaving, edLoading, edError, edDebounced,
            edTimer, edLoads, edSeq, edSaves, edAge, edTypedAge, edStable, edLastSave>>

sVars == <<sQuery, sDebounced, sTimer, sOptions, sResults, sSuggestions, sIsSearching,
           sInflight, sAge, sStable, sLastSent>>

fVars == <<fPending, fLast>>

kVars == <<kReadOnly, kColumns, kLoading, kError, kInflight, kLastDrag>>

dvVars == <<dvContent, dvPending, dvQueries, dvResults, dvLoading, dvError,
            dvRuns, dvFinished>>

pdfVars == <<pdfMounted, pdfContent, pdfGenerating, pdfUrl, pdfError, pdfInflight,
             pdfSeq, pdfCaptured, pdfCreated, pdfRevoked>>

appVars == <<appTheme, appCollapsed, appStorage>>

rdVars == <<rdContent, rdRendered, rdLoading, rdError, rdInflight, rdDom>>

delVars == <<delName, delDialog, delInflight, delToast>>

vars == <<authVars, files, epVars, edVars, sVars, fVars, kVars, dvVars, pdfVars, appVars, rdVars, delVars>>

\* What the actions of one component leave alone: the other components.
authFrame == <<files, epVars, edVars, sVars, fVars, kVars, dvVars, pdfVars, appVars, rdVars, delVars>>
epFrame == <<authVars, edVars, sVars, fVars, kVars, dvVars, pdfVars, appVars, rdVars, delVars>>
edFrame == <<authVars, epVars, sVars, fVars, kVars, dvVars, pdfVars, appVars, rdVars, delVars>>
sFrame == <<authVars, files, epVars, edVars, fVars, kVars, dvVars, pdfVars, appVars, rdVars, delVars>>
fFrame == <<authVars, files, epVars, edVars, sVars, kVars, dvVars, pdfVars, appVars, rdVars, delVars>>
kFrame == <<authVars, files, epVars, edVars, sVars, fVars, dvVars, pdfVars, appVars, rdVars, delVars>>
dvFrame == <<authVars, files, epVars, edVars, sVars, fVars, kVars, pdfVars, appVars, rdVars, delVars>>
pdfFrame == <<authVars, files, epVars, edVars, sVars, fVars, kVars, dvVars, appVars, rdVars, delVars>>
appFrame == <<authVars, files, epVars, edVars, sVars, fVars, kVars, dvVars, pdfVars, rdVars, delVars>>
rdFrame == <<authVars, files, epVars, edVars, sVars, fVars, kVars, dvVars, pdfVars, appVars, delVars>>
delFrame == <<edVars, sVars, fVars, kVars, dvVars, pdfVars, appVars, rdVars>>

Null == "null"

(***************************************************************************)
(* Bounds                                                                  *)
(***************************************************************************)
MaxInflight == 2
MaxInterceptors == 2
MaxLoads == 3
MaxPageSaves == 2
MaxPathLen == 4
MaxDeletes == 2
MaxEdLoads == 2
MaxQueryLen == 3
MaxSearchInflight == 1
SearchTickMs == 150
MaxPending == 2
MaxKanbanInflight == 1
MaxContentLen == 8
MaxRuns == 2
MaxPdfRequests == 3
MaxReaderInflight == 2
MaxHtmlLen == 2
EditorTickMs == 500

Tokens == {"t1", "t2"}
Users == {"admin"}
Statuses == {200, 401, 500}
Routes == {"/login", "/dashboard", "/", "/editor"}
StorageKeys == {"token"}

(***************************************************************************)
(* AuthContext                                                             *)
(***************************************************************************)
RECURSIVE RunChain(_, _)
\* axios runs the request interceptors one after the other on the config;
\* each interceptor sets Authorization when the token it captured is truthy.
RunChain(chain, hdr) ==
  IF chain = <<>> THEN hdr
  ELSE RunChain(Tail(chain), IF Head(chain) # Null THEN Head(chain) ELSE hdr)

Reverse(s) == [i \in 1..Len(s) |-> s[Len(s) + 1 - i]]

\* The Authorization header of an axios request whose own config carries
\* `explicit`: request interceptors run in reverse order of registration.
AxiosAuth(regs, explicit) == RunChain(Reverse(regs), explicit)

\* getAuthHeaders: the fetch wrapper reads local storage when it sends.
getAuthHeaders(st) == st["token"]

Request(via, purpose, auth, st) ==
  [via |-> via, purpose |-> purpose, auth |-> auth, stored |-> st["token"]]

removeToken(st) == [st EXCEPT !["token"] = Null]

\* The interceptor effect has [navigate] as its dependency: when the route
\* changes the effect may run again and register one more interceptor pair,
\* capturing the token that is in local storage at that time.
NavEffect(regs, oldRoute, newRoute, st) ==
  IF oldRoute = newRoute \/ Len(regs) >= MaxInterceptors
  THEN {regs}
  ELSE {regs, Append(regs, st["token"])}

AuthInit ==
  /\ mounted = FALSE
  /\ storage \in [StorageKeys -> Tokens \cup {Null}]
  /\ user = Null
  /\ isLoading = TRUE
  /\ error = Null
  /\ route \in {"/login", "/"}
  /\ interceptors = <<>>
  /\ inflight = {}

\* The two mount effects of AuthProvider: register the interceptors, then checkAuth.
Mount ==
  /\ ~mounted
  /\ mounted' = TRUE
  /\ interceptors' = <<storage["token"]>>
  /\ IF storage["token"] = Null
     THEN /\ isLoading' = FALSE
          /\ inflight' = inflight
     ELSE /\ isLoading' = isLoading
          /\ inflight' = inflight \cup
               {Request("axios", "checkAuth", AxiosAuth(interceptors', Null), storage)}
  /\ UNCHANGED <<storage, user, error, route>>
  /\ UNCHANGED authFrame

\* login, up to the first await.
LoginSubmit ==
  /\ mounted /\ route = "/login" /\ user = Null /\ ~isLoading
  /\ Cardinality(inflight) < MaxInflight
  /\ isLoading' = TRUE
  /\ error' = Null
  /\ inflight' = inflight \cup
       {Request("axios", "token", AxiosAuth(interceptors, Null), storage)}
  /\ UNCHANGED <<mounted, storage, user, route, interceptors>>
  /\ UNCHANGED authFrame

\* A component sends a request with axios.
SendAxios ==
  /\ mounted
  /\ Cardinality(inflight) < MaxInflight
  /\ inflight' = inflight \cup
       {Request("axios", "data", AxiosAuth(interceptors, Null), storage)}
  /\ UNCHANGED <<mounted, storage, user, isLoading, error, route, interceptors>>
  /\ UNCHANGED authFrame

\* A component sends a request with the fetch-based wrapper `request`.
SendFetch ==
  /\ mounted
  /\ Cardinality(inflight) < MaxInflight
  /\ inflight' = inflight \cup
       {Request("fetch", "data", getAuthHeaders(storage), storage)}
  /\ UNCHANGED <<mounted, storage, user, isLoading, error, route, interceptors>>
  /\ UNCHANGED authFrame

\* The catch block of checkAuth.
checkAuthFailed_keepToken(st) == st
checkAuthFailed(st) == removeToken(st)

\* The axios response interceptor followed by the continuation of the caller.
AxiosResponse(r, status) ==
  /\ r \in inflight /\ r.via = "axios"
  /\ LET loggedOut == status = 401
         st1   == IF loggedOut THEN removeToken(storage) ELSE storage
         usr1  == IF loggedOut THEN Null ELSE user
         rt1   == IF loggedOut THEN "/login" ELSE route
         rest  == inflight \ {r}
     IN
     \/ /\ r.purpose = "checkAuth"
        /\ IF status = 200
           THEN /\ \E u \in Users : user' = u
                /\ storage' = st1
           ELSE /\ user' = usr1
                /\ storage' = checkAuthFailed(st1)
        /\ isLoading' = FALSE
        /\ route' = rt1
        /\ inflight' = rest
        /\ error' = error
     \/ /\ r.purpose = "token"
        /\ IF status = 200
           THEN \E t \in Tokens :
                  /\ storage' = [st1 EXCEPT !["token"] = t]
                  /\ inflight' = rest \cup
                       {Request("axios", "me", AxiosAuth(interceptors, t), storage')}
                  /\ UNCHANGED <<user, isLoading, error, route>>
           ELSE /\ storage' = st1
                /\ user' = usr1
                /\ route' = rt1
                /\ error' = "Failed to login"
                /\ isLoading' = FALSE
                /\ inflight' = rest
     \/ /\ r.purpose = "me"
        /\ IF status = 200
           THEN /\ \E u \in Users : user' = u
                /\ route' = "/dashboard"
                /\ error' = error
           ELSE /\ user' = usr1
                /\ route' = rt1
                /\ error' = "Failed to login"
        /\ storage' = st1
        /\ isLoading' = FALSE
        /\ inflight' = rest
     \/ /\ r.purpose = "data"
        /\ storage' = st1
        /\ user' = usr1
        /\ route' = rt1
        /\ inflight' = rest
        /\ UNCHANGED <<isLoading, error>>
  /\ interceptors' \in NavEffect(interceptors, route, route', storage')
  /\ mounted' = mounted
  /\ UNCHANGED authFrame

\* The fetch wrapper: a response that is not ok is turned into a thrown Error.
FetchResponse(r, status) ==
  /\ r \in inflight /\ r.via = "fetch"
  /\ inflight' = inflight \ {r}
  /\ UNCHANGED <<mounted, storage, user, isLoading, error, route, interceptors>>
  /\ UNCHANGED authFrame

\* logout, from the user menu.
Logout ==
  /\ mounted /\ user # Null
  /\ storage' = removeToken(storage)
  /\ user' = Null
  /\ route' = "/login"
  /\ interceptors' \in NavEffect(interceptors, route, route', storage')
  /\ UNCHANGED <<mounted, isLoading, error, inflight>>
  /\ UNCHANGED authFrame

\* The user follows a link.
Navigate(to) ==
  /\ mounted
  /\ route' = to
  /\ route' # route
  /\ interceptors' \in NavEffect(interceptors, route, route', storage)
  /\ UNCHANGED <<mounted, storage, user, isLoading, error, inflight>>
  /\ UNCHANGED authFrame

\* A page reload: the component tree is built again, local storage survives.
Reload ==
  /\ mounted
  /\ mounted' = FALSE
  /\ user' = Null
  /\ isLoading' = TRUE
  /\ error' = Null
  /\ interceptors' = <<>>
  /\ inflight' = {}
  /\ UNCHANGED <<storage, route>>
  /\ UNCHANGED authFrame

AuthNext ==
  \/ Mount
  \/ LoginSubmit
  \/ SendAxios
  \/ SendFetch
  \/ \E r \in inflight, s \in Statuses : AxiosResponse(r, s)
  \/ \E r \in inflight, s \in Statuses : FetchResponse(r, s)
  \/ Logout
  \/ \E to \in Routes : Navigate(to)
  \/ Reload

\* The authentication context before anything has happened, with no stored token.
AuthIdle ==
  /\ mounted = FALSE
  /\ storage = [k \in StorageKeys |-> Null]
  /\ user = Null
  /\ isLoading = TRUE
  /\ error = Null
  /\ route = "/login"
  /\ interceptors = <<>>
  /\ inflight = {}

(***************************************************************************)
(* EditorPage                                                              *)
(***************************************************************************)
Paths == {"A", "B"}
Typed == {"x", "y"}
BackendFiles == [p \in Paths |-> IF p = "A" THEN "a" ELSE "b"]

BackendInit == files = BackendFiles

EpInit ==
  /\ epPath = Null
  /\ epContent = ""
  /\ epOriginal = ""
  /\ epLoading = TRUE
  /\ epError = Null
  /\ epLoads = {}
  /\ epSeq = 0
  /\ epAnswered = <<>>
  /\ epUnsaved = FALSE
  /\ epPrompt = FALSE
  /\ epSaves = {}
  /\ epSaveSeq = 0
  /\ epRecorded = {}

EpIdle == EpInit

\* The two unsaved-changes effects of the render that follows a change of
\* content or originalContent: the flag is recomputed, and the beforeunload
\* handler is registered again with the new flag.
EpEffects(content, original) ==
  /\ epUnsaved' = (content # original)
  /\ epPrompt' = epUnsaved'

\* What the page renders in place of the Save button.
SaveButton ==
  IF epLoading \/ epError # Null THEN "absent"
  ELSE IF epUnsaved THEN "enabled" ELSE "disabled"

\* handleBeforeUnload asks for confirmation.
LeavePrompt == epPrompt

\* The route parameter changes; the [filePath] effect runs fetchFileContent
\* up to its await.
EpOpen(p) ==
  /\ p # epPath
  /\ epSeq < MaxLoads
  /\ epPath' = p
  /\ epLoading' = TRUE
  /\ epError' = Null
  /\ epSeq' = epSeq + 1
  /\ epLoads' = epLoads \cup {[seq |-> epSeq', path |-> p]}
  /\ UNCHANGED <<files, epContent, epOriginal, epAnswered>>
  /\ UNCHANGED <<epUnsaved, epPrompt, epSaves, epSaveSeq, epRecorded>>
  /\ UNCHANGED epFrame

\* fetchFileContent after its await, for a response the page no longer waits
\* for as well as for the latest one.
EpLoadResponse_latestOnly(r, ok) ==
  /\ r \in epLoads
  /\ epLoads' = epLoads \ {r}
  /\ epAnswered' = Append(epAnswered, [seq |-> r.seq, path |-> r.path, ok |-> ok])
  /\ IF r.seq # epSeq
     THEN UNCHANGED <<epContent, epOriginal, epError, epLoading, epRecorded>>
     ELSE /\ IF ok
             THEN /\ epContent' = files[r.path]
                  /\ epOriginal' = files[r.path]
                  /\ epError' = epError
                  /\ epRecorded' = {files[r.path]}
             ELSE /\ epError' = "Failed to load file content"
                  /\ UNCHANGED <<epContent, epOriginal, epRecorded>>
          /\ epLoading' = FALSE
  /\ EpEffects(epContent', epOriginal')
  /\ UNCHANGED <<files, epPath, epSeq, epSaves, epSaveSeq>>
  /\ UNCHANGED epFrame

EpLoadResponse(r, ok) ==
  /\ r \in epLoads
  /\ epLoads' = epLoads \ {r}
  /\ epAnswered' = Append(epAnswered, [seq |-> r.seq, path |-> r.path, ok |-> ok])
  /\ IF ok
     THEN /\ epContent' = files[r.path]
          /\ epOriginal' = files[r.path]
          /\ epError' = epError
          /\ epRecorded' = {files[r.path]}
     ELSE /\ epError' = "Failed to load file content"
          /\ UNCHANGED <<epContent, epOriginal, epRecorded>>
  /\ epLoading' = FALSE
  /\ EpEffects(epContent', epOriginal')
  /\ UNCHANGED <<files, epPath, epSeq, epSaves, epSaveSeq>>
  /\ UNCHANGED epFrame

\* handleContentChange; the editor is rendered only when the page is neither
\* loading nor showing an error.
EpEdit(c) ==
  /\ ~epLoading /\ epError = Null
  /\ c # epContent
  /\ epContent' = c
  /\ EpEffects(c, epOriginal)
  /\ UNCHANGED <<files, epPath, epOriginal, epLoading, epError, epLoads, epSeq, epAnswered>>
  /\ UNCHANGED <<epSaves, epSaveSeq, epRecorded>>
  /\ UNCHANGED epFrame

\* handleSave up to its await: a click on the Save button sends the content
\* of the render the click happened in.
handleSave ==
  /\ SaveButton = "enabled"
  /\ epPath # Null
  /\ epSaveSeq < MaxPageSaves
  /\ epSaveSeq' = epSaveSeq + 1
  /\ epSaves' = epSaves \cup {[seq |-> epSaveSeq', path |-> epPath, content |-> epContent]}
  /\ UNCHANGED <<files, epPath, epContent, epOriginal, epLoading, epError, epLoads, epSeq,
                 epAnswered, epUnsaved, epPrompt, epRecorded>>
  /\ UNCHANGED epFrame

\* The value handleSave passes to setOriginalContent: `content` of the
\* closure that sent the request, not the state at the time of the response.
SavedContent_current(sent, current) == current
SavedContent(sent, current) == sent

\* handleSave after its await, then the effects of the render that follows;
\* a failure only shows a toast.
EpSaveResponse(r, ok) ==
  /\ r \in epSaves
  /\ epSaves' = epSaves \ {r}
  /\ IF ok
     THEN /\ files' = [files EXCEPT ![r.path] = r.content]
          /\ epOriginal' = SavedContent(r.content, epContent)
          /\ epRecorded' = {r.content}
     ELSE UNCHANGED <<files, epOriginal, epRecorded>>
  /\ EpEffects(epContent, epOriginal')
  /\ UNCHANGED <<epPath, epContent, epLoading, epError, epLoads, epSeq, epAnswered, epSaveSeq>>
  /\ UNCHANGED epFrame

EpNext ==
  \/ \E p \in Paths : EpOpen(p)
  \/ \E r \in epLoads, ok \in BOOLEAN : EpLoadResponse(r, ok)
  \/ \E c \in Typed : EpEdit(c)
  \/ handleSave
  \/ \E r \in epSaves, ok \in BOOLEAN : EpSaveResponse(r, ok)

(***************************************************************************)
(* useDebounce (hooks/useDebounce): the hook returns the value it was      *)
(* first given, and after every change of the value it starts a timeout of *)
(* `delay` ms, dropping the one pending; when the timeout fires the value  *)
(* it was started with becomes the returned value.                         *)
(***************************************************************************)
\* The timeout pending after the value went from `old` to `new`.
useDebounceChange(timer, old, new, delay) ==
  IF new = old THEN timer ELSE {[value |-> new, left |-> delay]}

\* `step` ms pass: does the pending timeout fire?
useDebounceFires(timer, step) == \E t \in timer : t.left <= step

\* The value the hook returns after `step` ms have passed.
useDebounceValue(timer, step, debounced) ==
  IF useDebounceFires(timer, step) THEN (CHOOSE t \in timer : TRUE).value ELSE debounced

\* The timeout pending after `step` ms have passed.
useDebounceTick(timer, step) ==
  {[t EXCEPT !.left = @ - step] : t \in {u \in timer : u.left > step}}

Elapse(age, step, delay) == IF age + step >= delay THEN delay ELSE age + step

(***************************************************************************)
(* Editor                                                                  *)
(***************************************************************************)
EditorDebounceMs == 1000

EdInit ==
  /\ edPath = Null
  /\ edContent = ""
  /\ edOriginal = ""
  /\ edSaving = FALSE
  /\ edLoading = TRUE
  /\ edError = Null
  /\ edDebounced = ""
  /\ edTimer = {[value |-> "", left |-> EditorDebounceMs]}
  /\ edLoads = {}
  /\ edSeq = 0
  /\ edSaves = {}
  /\ edAge = 0
  /\ edTypedAge = EditorDebounceMs
  /\ edStable = {}
  /\ edLastSave = {}

EdIdle == EdInit

\* The value the auto-save effect hands to saveContent.
AutoSaveValue_current(deb, cur) == cur

AutoSaveValue(deb, cur) == deb

\* The auto-save effect followed by saveContent up to its await: is a save
\* request sent in the render where the effect's dependencies changed?
AutoSaveSends(depsChanged, deb, cur, orig, path, saving) ==
  /\ depsChanged
  /\ AutoSaveValue(deb, cur) # "" /\ AutoSaveValue(deb, cur) # orig
  /\ path # Null /\ ~saving

\* The variables the auto-save effect may touch, given the state of the
\* render it runs in; `rest` are the save requests still in flight.
EdEffects(depsChanged, deb, cur, orig, path, saving, rest, typedAge, stable) ==
  LET sends == AutoSaveSends(depsChanged, deb, cur, orig, path, saving)
      req == [path |-> path, content |-> AutoSaveValue(deb, cur)]
  IN /\ edSaving' = (saving \/ sends)
     /\ edSaves' = IF sends THEN rest \cup {req} ELSE rest
     /\ edLastSave' = IF sends
                      THEN {[path |-> req.path, content |-> req.content,
                             stable |-> (req.content \in stable),
                             quiet |-> (typedAge >= EditorDebounceMs)]}
                      ELSE edLastSave

\* The prop filePath changes; the [filePath] effect runs fetchContent up to
\* its await.
EdOpen(p) ==
  /\ p # edPath
  /\ edSeq < MaxEdLoads
  /\ edPath' = p
  /\ edLoading' = TRUE
  /\ edSeq' = edSeq + 1
  /\ edLoads' = edLoads \cup {[seq |-> edSeq', path |-> p]}
  /\ UNCHANGED <<files, edContent, edOriginal, edSaving, edError, edDebounced, edTimer,
                 edSaves, edAge, edTypedAge, edStable, edLastSave>>
  /\ UNCHANGED edFrame

\* fetchContent after its await, then the effects of the render that follows.
EdLoadResponse(r, ok) ==
  /\ r \in edLoads
  /\ edLoads' = edLoads \ {r}
  /\ edLoading' = FALSE
  /\ IF ok
     THEN /\ edContent' = files[r.path]
          /\ edOriginal' = files[r.path]
          /\ edError' = Null
     ELSE /\ edError' = "Failed to load file content"
          /\ UNCHANGED <<edContent, edOriginal>>
  /\ edTimer' = useDebounceChange(edTimer, edContent, edContent', EditorDebounceMs)
  /\ edAge' = IF edContent' = edContent THEN edAge ELSE 0
  /\ EdEffects(edOriginal' # edOriginal, edDebounced, edContent', edOriginal', edPath,
               edSaving, edSaves, edTypedAge, edStable)
  /\ UNCHANGED <<files, edPath, edSeq, edDebounced, edTypedAge, edStable>>
  /\ UNCHANGED edFrame

\* handleEditorChange; the editor is rendered only when the component is
\* neither loading nor showing an error.
EdType(c) ==
  /\ ~edLoading /\ edError = Null
  /\ c # edContent
  /\ edContent' = c
  /\ edTimer' = useDebounceChange(edTimer, edContent, c, EditorDebounceMs)
  /\ edAge' = 0
  /\ edTypedAge' = 0
  /\ UNCHANGED <<files, edPath, edOriginal, edSaving, edLoading, edError, edDebounced,
                 edLoads, edSeq, edSaves, edStable, edLastSave>>
  /\ UNCHANGED edFrame

\* EditorTickMs pass without any event; the debounce timeout fires when it is
\* due, and the effects of the render that follows run.
EdTick ==
  /\ edTimer # {} \/ edAge < EditorDebounceMs \/ edTypedAge < EditorDebounceMs
  /\ edTimer' = useDebounceTick(edTimer, EditorTickMs)
  /\ edDebounced' = useDebounceValue(edTimer, EditorTickMs, edDebounced)
  /\ edAge' = Elapse(edAge, EditorTickMs, EditorDebounceMs)
  /\ edTypedAge' = Elapse(edTypedAge, EditorTickMs, EditorDebounceMs)
  /\ edStable' = IF edAge' >= EditorDebounceMs THEN {edContent} ELSE edStable
  /\ EdEffects(edDebounced' # edDebounced, edDebounced', edContent, edOriginal, edPath,
               edSaving, edSaves, edTypedAge', edStable')
  /\ UNCHANGED <<files, edPath, edContent, edOriginal, edLoading, edError, edLoads, edSeq>>
  /\ UNCHANGED edFrame

\* saveContent after its await, then the effects of the render that follows.
EdSaveResponse(r, ok) ==
  /\ r \in edSaves
  /\ IF ok
     THEN /\ files' = [files EXCEPT ![r.path] = r.content]
          /\ edOriginal' = r.content
          /\ edError' = edError
     ELSE /\ edError' = "Failed to save changes"
          /\ UNCHANGED <<files, edOriginal>>
  /\ EdEffects(edOriginal' # edOriginal, edDebounced, edContent, edOriginal', edPath,
               FALSE, edSaves \ {r}, edTypedAge, edStable)
  /\ UNCHANGED <<edPath, edContent, edLoading, edDebounced, edTimer, edLoads, edSeq,
                 edAge, edTypedAge, edStable>>
  /\ UNCHANGED edFrame

EdNext ==
  \/ \E p \in Paths : EdOpen(p)
  \/ \E r \in edLoads, ok \in BOOLEAN : EdLoadResponse(r, ok)
  \/ \E c \in Typed : EdType(c)
  \/ EdTick
  \/ \E r \in edSaves, ok \in BOOLEAN : EdSaveResponse(r, ok)

\* The user deletes everything in the editor.
EdClear == EdType("")

\* The user does something: types, deletes, or opens a file.
EdUserActs ==
  \/ \E c \in Typed : EdType(c)
  \/ EdClear
  \/ \E p \in Paths : EdOpen(p)

\* A save request is answered, and every save succeeds.
EdSaved == \E r \in edSaves : EdSaveResponse(r, TRUE)

EdLoaded == \E r \in edLoads, ok \in BOOLEAN : EdLoadResponse(r, ok)

\* The editor when no save fails.
EdLiveNext ==
  \/ \E p \in Paths : EdOpen(p)
  \/ EdLoaded
  \/ \E c \in Typed : EdType(c)
  \/ EdClear
  \/ EdTick
  \/ EdSaved

(***************************************************************************)
(* Search                                                                  *)
(***************************************************************************)
SearchDebounceMs == 300

\* The input values: strings, as sequences of characters.
Queries == UNION {[1..n -> {"a"}] : n \in 0..MaxQueryLen}
Options == [case_sensitive : BOOLEAN, regex : BOOLEAN]

SInit ==
  /\ sQuery = <<>>
  /\ sDebounced = <<>>
  /\ sTimer = {[value |-> <<>>, left |-> SearchDebounceMs]}
  /\ sOptions = [case_sensitive |-> FALSE, regex |-> FALSE]
  /\ sResults = {}
  /\ sSuggestions = {}
  /\ sIsSearching = FALSE
  /\ sInflight = {}
  /\ sAge = 0
  /\ sStable = {}
  /\ sLastSent = {}

SIdle == SInit

\* The value fetchSuggestions puts into its request.
SuggestValue(deb, cur) == cur

\* The value performSearch puts into its request.
SearchValue_current(deb, cur) == cur

SearchValue(deb, cur) == deb

Sent(kind, q, stable) == {[kind |-> kind, query |-> q, stable |-> (q \in stable)]}

\* performSearch up to its await, in a render with debouncedQuery = deb.
performSearch(deb, cur, opts, stable) ==
  IF deb = <<>>
  THEN UNCHANGED <<sIsSearching, sInflight, sLastSent>>
  ELSE /\ sIsSearching' = TRUE
       /\ sInflight' = sInflight \cup
            {[kind |-> "search", query |-> SearchValue(deb, cur)]}
       /\ sLastSent' = Sent("search", SearchValue(deb, cur), stable)

\* The [debouncedQuery, searchOptions] effect.
SearchEffect(deb, cur, opts, stable) ==
  IF Len(deb) > 2
  THEN /\ performSearch(deb, cur, opts, stable)
       /\ sResults' = sResults
  ELSE /\ sResults' = {}
       /\ UNCHANGED <<sIsSearching, sInflight, sLastSent>>

\* onChange of the input (or applySuggestion): setQuery, then the [query]
\* effect of the render that follows, fetchSuggestions up to its await.
SType(q) ==
  /\ q # sQuery
  /\ sQuery' = q
  /\ sTimer' = useDebounceChange(sTimer, sQuery, q, SearchDebounceMs)
  /\ sAge' = 0
  /\ IF Len(q) > 1
     THEN /\ sInflight' = sInflight \cup
               {[kind |-> "suggest", query |-> SuggestValue(sDebounced, q)]}
          /\ sLastSent' = Sent("suggest", SuggestValue(sDebounced, q), sStable)
          /\ sSuggestions' = sSuggestions
     ELSE /\ sSuggestions' = {}
          /\ UNCHANGED <<sInflight, sLastSent>>
  /\ Cardinality(sInflight') <= MaxSearchInflight
  /\ UNCHANGED <<sDebounced, sOptions, sResults, sIsSearching, sStable>>
  /\ UNCHANGED sFrame

\* SearchTickMs pass without any event; the debounce timeout fires when it is
\* due and the [debouncedQuery, searchOptions] effect runs if the value changed.
STick ==
  /\ sTimer # {} \/ sAge < SearchDebounceMs
  /\ sTimer' = useDebounceTick(sTimer, SearchTickMs)
  /\ sDebounced' = useDebounceValue(sTimer, SearchTickMs, sDebounced)
  /\ sAge' = Elapse(sAge, SearchTickMs, SearchDebounceMs)
  /\ sStable' = IF sAge' >= SearchDebounceMs THEN {sQuery} ELSE sStable
  /\ IF sDebounced' # sDebounced
     THEN SearchEffect(sDebounced', sQuery, sOptions, sStable')
     ELSE UNCHANGED <<sResults, sIsSearching, sInflight, sLastSent>>
  /\ Cardinality(sInflight') <= MaxSearchInflight
  /\ UNCHANGED <<sQuery, sOptions, sSuggestions>>
  /\ UNCHANGED sFrame

\* One of the option controls changes searchOptions; the effect runs.
SOption(o) ==
  /\ o # sOptions
  /\ sOptions' = o
  /\ SearchEffect(sDebounced, sQuery, o, sStable)
  /\ Cardinality(sInflight') <= MaxSearchInflight
  /\ UNCHANGED <<sQuery, sDebounced, sTimer, sSuggestions, sAge, sStable>>
  /\ UNCHANGED sFrame

\* The Search button, enabled when debouncedQuery has at least two characters.
SClick ==
  /\ Len(sDebounced) >= 2
  /\ performSearch(sDebounced, sQuery, sOptions, sStable)
  /\ Cardinality(sInflight') <= MaxSearchInflight
  /\ UNCHANGED <<sQuery, sDebounced, sTimer, sOptions, sResults, sSuggestions, sAge, sStable>>
  /\ UNCHANGED sFrame

\* performSearch and fetchSuggestions after their await.
SResponse(r, ok) ==
  /\ r \in sInflight
  /\ sInflight' = sInflight \ {r}
  /\ IF r.kind = "search"
     THEN /\ sResults' = IF ok THEN {r.query} ELSE sResults
          /\ sIsSearching' = FALSE
          /\ sSuggestions' = sSuggestions
     ELSE /\ sSuggestions' = IF ok THEN {r.query} ELSE sSuggestions
          /\ UNCHANGED <<sResults, sIsSearching>>
  /\ UNCHANGED <<sQuery, sDebounced, sTimer, sOptions, sAge, sStable, sLastSent>>
  /\ UNCHANGED sFrame

SNext ==
  \/ \E q \in Queries : SType(q)
  \/ STick
  \/ \E o \in Options : SOption(o)
  \/ SClick
  \/ \E r \in sInflight, ok \in BOOLEAN : SResponse(r, ok)

(***************************************************************************)
(* The request handlers of the components: what each does with a failed    *)
(* request.  viaQuery: the request goes through react-query (useQuery);    *)
(* caught: the await sits in a try with a catch; logs: the catch calls     *)
(* console.error; shows: what the catch puts in front of the user.         *)
(***************************************************************************)
QueryRetry == 1

Handler(viaQuery, caught, logs, shows) ==
  [viaQuery |-> viaQuery, caught |-> caught, logs |-> logs, shows |-> shows]

LeftNavHandlers ==
  [fetchFileTree    |-> Handler(FALSE, TRUE, TRUE, "inline"),
   handleCreateFile |-> Handler(FALSE, TRUE, TRUE, "alert")]

AppContextHandlers ==
  [refreshFiles |-> Handler(FALSE, TRUE, TRUE, "none")]

SettingsHandlers ==
  [loadSettings |-> Handler(FALSE, TRUE, TRUE, "none"),
   loadThemes   |-> Handler(FALSE, TRUE, TRUE, "none"),
   saveSettings |-> Handler(FALSE, TRUE, TRUE, "none")]

SearchHandlers ==
  [performSearch    |-> Handler(FALSE, TRUE, TRUE, "none"),
   fetchSuggestions |-> Handler(FALSE, TRUE, TRUE, "none")]

EditorPageHandlers ==
  [fetchFileContent |-> Handler(FALSE, TRUE, TRUE, "inline"),
   handleSave       |-> Handler(FALSE, TRUE, TRUE, "toast")]

\* The components the application mounts.
Handlers ==
  LeftNavHandlers @@ AppContextHandlers @@ SettingsHandlers
    @@ SearchHandlers @@ EditorPageHandlers

FInit ==
  /\ fPending = {}
  /\ fLast = {}

FIdle == FInit

\* A handler sends its request.
FSend(h) ==
  /\ Cardinality(fPending) < MaxPending
  /\ \A r \in fPending : r.handler # h
  /\ fPending' = fPending \cup {[handler |-> h, attempt |-> 1]}
  /\ fLast' = fLast
  /\ UNCHANGED fFrame

\* The answer arrives.  A failed query of react-query is sent again up to
\* QueryRetry times; every other failure goes to the handler's catch.
FResponse(r, ok) ==
  /\ r \in fPending
  /\ IF ~ok /\ Handlers[r.handler].viaQuery /\ r.attempt <= QueryRetry
     THEN /\ fPending' = (fPending \ {r}) \cup {[r EXCEPT !.attempt = @ + 1]}
          /\ fLast' = fLast
     ELSE /\ fPending' = fPending \ {r}
          /\ fLast' = {[handler |-> r.handler, ok |-> ok, attempts |-> r.attempt,
                         caught |-> Handlers[r.handler].caught,
                         logged |-> (~ok /\ Handlers[r.handler].logs),
                         shown |-> IF ok THEN "none" ELSE Handlers[r.handler].shows]}
  /\ UNCHANGED fFrame

FNext ==
  \/ \E h \in DOMAIN Handlers : FSend(h)
  \/ \E r \in fPending, ok \in BOOLEAN : FResponse(r, ok)

(***************************************************************************)
(* KanbanBoard.  Cards are known by their ids; indices are those of the    *)
(* source, counted from 0.                                                 *)
(***************************************************************************)
Cards == {"c1", "c2", "c3"}
ColumnIds == {"todo", "done"}
Endpoints == {"parse", "toMarkdown"}
NoColumns == [c \in {} |-> <<>>]

Orders(cs) ==
  {s \in [1..Cardinality(cs) -> cs] : \A i, j \in DOMAIN s : s[i] = s[j] => i = j}

\* The boards /api/kanban/parse may answer with: no column at all, or the
\* columns holding some of the cards in any arrangement.
ParsedBoards ==
  {NoColumns} \cup
  UNION {{[c \in ColumnIds |-> IF c = "todo" THEN SubSeq(s, 1, k)
                                             ELSE SubSeq(s, k + 1, Len(s))] :
            s \in Orders(cs), k \in 0..Cardinality(cs)} : cs \in SUBSET Cards}

Min(a, b) == IF a < b THEN a ELSE b

\* items.splice(index, 1): the items left, and the items removed.
SpliceRemoved(items, index) ==
  IF index < Len(items) THEN <<items[index + 1]>> ELSE <<>>

SpliceRemove(items, index) ==
  IF index < Len(items)
  THEN SubSeq(items, 1, index) \o SubSeq(items, index + 2, Len(items))
  ELSE items

\* items.splice(index, 1, item), which overwrites the card at the index.
SpliceInsert_overwrite(items, index, moved) ==
  SubSeq(items, 1, Min(index, Len(items))) \o moved
    \o SubSeq(items, Min(index, Len(items)) + 2, Len(items))

\* items.splice(index, 0, item)
SpliceInsert(items, index, moved) ==
  SubSeq(items, 1, Min(index, Len(items))) \o moved
    \o SubSeq(items, Min(index, Len(items)) + 1, Len(items))

\* The board after the two splices of handleDragEnd.
MoveCard(columns, source, destination) ==
  LET removed == [columns EXCEPT ![source.droppableId] =
                    SpliceRemove(@, source.index)]
      movedItem == SpliceRemoved(columns[source.droppableId], source.index)
  IN  [removed EXCEPT ![destination.droppableId] =
         SpliceInsert(@, destination.index, movedItem)]

\* The drag ends the drag-and-drop library reports for the board on screen:
\* a card of the board, dropped nowhere or at a place of a column.
DragResults ==
  {[source |-> [droppableId |-> c, index |-> i], destination |-> d] :
     c \in DOMAIN kColumns, i \in 0..Cardinality(Cards),
     d \in {{}} \cup {{[droppableId |-> c2, index |-> j]} :
                       c2 \in DOMAIN kColumns, j \in 0..Cardinality(Cards)}}

Droppable(result) ==
  /\ result.source.index < Len(kColumns[result.source.droppableId])
  /\ \A d \in result.destination :
        d.index <= Len(kColumns[d.droppableId])
                     - (IF d.droppableId = result.source.droppableId THEN 1 ELSE 0)

KanbanPost(endpoint) ==
  /\ kInflight["parse"] + kInflight["toMarkdown"] < MaxKanbanInflight
  /\ kInflight' = [kInflight EXCEPT ![endpoint] = @ + 1]

KanbanAnswer(endpoint) ==
  /\ kInflight[endpoint] > 0
  /\ kInflight' = [kInflight EXCEPT ![endpoint] = @ - 1]

KInit ==
  /\ kReadOnly \in BOOLEAN
  /\ kColumns = NoColumns
  /\ kLoading = TRUE
  /\ kError = Null
  /\ kInflight = [e \in Endpoints |-> IF e = "parse" THEN 1 ELSE 0]
  /\ kLastDrag = {}

\* The panel is not on screen.
KIdle ==
  /\ kReadOnly = FALSE
  /\ kColumns = NoColumns
  /\ kLoading = TRUE
  /\ kError = Null
  /\ kInflight = [e \in Endpoints |-> 0]
  /\ kLastDrag = {}

\* The parent renders the board with another markdownContent.
KMarkdownChange ==
  /\ kLoading' = TRUE
  /\ KanbanPost("parse")
  /\ UNCHANGED <<kReadOnly, kColumns, kError, kLastDrag>>
  /\ UNCHANGED kFrame

KParseResponse(ok, board) ==
  /\ KanbanAnswer("parse")
  /\ IF ok
     THEN kColumns' = board /\ kError' = Null
     ELSE kColumns' = kColumns /\ kError' = "Failed to parse Kanban data"
  /\ kLoading' = FALSE
  /\ UNCHANGED <<kReadOnly, kLastDrag>>
  /\ UNCHANGED kFrame

Handled(returned, result) ==
  {[returned |-> returned,
    across |-> \E d \in result.destination :
                 d.droppableId # result.source.droppableId]}

\* The test for a card dropped where it was taken from.
SamePosition_never(source, destination) == FALSE
SamePosition(source, destination) ==
  /\ source.droppableId = destination.droppableId
  /\ source.index = destination.index

handleDragEnd(result) ==
  /\ ~kLoading /\ kError = Null
  /\ Droppable(result)
  /\ IF kReadOnly
     THEN /\ kLastDrag' = Handled("readOnly", result)
          /\ UNCHANGED <<kColumns, kInflight>>
     ELSE IF result.destination = {}
     THEN /\ kLastDrag' = Handled("no destination", result)
          /\ UNCHANGED <<kColumns, kInflight>>
     ELSE IF \E d \in result.destination : SamePosition(result.source, d)
     THEN /\ kLastDrag' = Handled("same position", result)
          /\ UNCHANGED <<kColumns, kInflight>>
     ELSE /\ \E d \in result.destination :
               kColumns' = MoveCard(kColumns, result.source, d)
          /\ KanbanPost("toMarkdown")
          /\ kLastDrag' = Handled("moved", result)
  /\ UNCHANGED <<kReadOnly, kLoading, kError>>
  /\ UNCHANGED kFrame

KToMarkdownResponse(ok) ==
  /\ KanbanAnswer("toMarkdown")
  /\ kError' = IF ok THEN kError ELSE "Failed to update Kanban data"
  /\ UNCHANGED <<kReadOnly, kColumns, kLoading, kLastDrag>>
  /\ UNCHANGED kFrame

KNext ==
  \/ KMarkdownChange
  \/ \E ok \in BOOLEAN, board \in ParsedBoards : KParseResponse(ok, board)
  \/ \E result \in DragResults : handleDragEnd(result)
  \/ \E ok \in BOOLEAN : KToMarkdownResponse(ok)

(***************************************************************************)
(* DataView.  The content is a sequence of lexemes: a fence of three       *)
(* backquotes, the word dataview with the white space after it, a piece of *)
(* text with TABLE in it, and a piece of text with LIST in it.  Any other  *)
(* text is not a lexeme of its own: right after a fence it acts as TABLE   *)
(* does there, and everywhere else as the word dataview does.              *)
(***************************************************************************)
Fence == "fence"
Dataview == "dataview "
Table == "TABLE"
List == "LIST"
Lexemes == {Fence, Dataview, Table, List}

Contents == UNION {[1..n -> Lexemes] : n \in 0..MaxContentLen}

\* The documents the panel is shown with when its queries are executed.
Documents ==
  {<<Table>>,
   <<Fence, Dataview, Table, Fence>>,
   <<Fence, Dataview, Dataview, Fence, List, Fence, Dataview, List, Fence,
     Fence, Dataview, Table, List, Fence>>}

Least(S) == CHOOSE i \in S : \A j \in S : i <= j

\* dataviewRegex.exec(content) from lastIndex on: no match, or the body
\* (the group) of the leftmost match and the index behind the match.
dataviewRegexExec(content, lastIndex) ==
  LET closing(i) == {j \in (i + 2)..Len(content) : content[j] = Fence}
      starts == {i \in lastIndex..(Len(content) - 2) :
                   /\ content[i] = Fence
                   /\ content[i + 1] = Dataview
                   /\ closing(i) # {}}
  IN  IF starts = {} THEN {}
      ELSE LET i == Least(starts)
               j == Least(closing(i))
           IN  {[group |-> SubSeq(content, i + 2, j - 1), lastIndex |-> j + 1]}

includes(queryContent, token) ==
  \E k \in DOMAIN queryContent : queryContent[k] = token

\* The id numbered by the matches seen so far.
QueryId_byMatch(extractedQueries, matches) == "query-" \o ToString(matches)

\* The id numbered by the queries pushed so far.
QueryId(extractedQueries, matches) ==
  "query-" \o ToString(Len(extractedQueries))

Query(type, source, id) == [type |-> type, source |-> source, id |-> id]

RECURSIVE extractLoop(_, _, _, _)
extractLoop(content, lastIndex, extractedQueries, matches) ==
  LET match == dataviewRegexExec(content, lastIndex)
  IN  IF match = {} THEN extractedQueries
      ELSE LET m == CHOOSE x \in match : TRUE
               id == QueryId(extractedQueries, matches)
               pushed ==
                 IF includes(m.group, Table)
                 THEN Append(extractedQueries, Query("table", m.group, id))
                 ELSE IF includes(m.group, List)
                 THEN Append(extractedQueries, Query("list", m.group, id))
                 ELSE extractedQueries
           IN  extractLoop(content, m.lastIndex, pushed, matches + 1)

extractQueries(content) == extractLoop(content, 1, <<>>, 0)

NoResults == [id \in {} |-> {}]

\* What the backend answers to /api/dataview/execute.
Answers == {"rows", "error message", "no error message"}

Failed(answer) == answer # "rows"

\* The entry executeQueries stores for a query.
QueryResult(id, answer) ==
  [id |-> id,
   data |-> IF Failed(answer) THEN "none" ELSE "rows",
   error |-> IF ~Failed(answer) THEN Null
             ELSE IF answer = "error message" THEN "backend error"
             ELSE "Failed to execute query"]

\* The loop leaves at the first failure.
NextQuery_untilFailure(index, length, answer) ==
  IF Failed(answer) THEN length + 1 ELSE index + 1

\* for (const query of queries), each iteration with its own try and catch
NextQuery(index, length, answer) == index + 1

\* executeQueries up to its first await.
StartRun(queries) ==
  [no |-> Least((1..MaxRuns) \ {r.no : r \in dvRuns}),
   queries |-> queries,
   index |-> 1,
   queryResults |-> NoResults,
   posted |-> <<queries[1].id>>,
   failed |-> {}]

DvInitWith(contents) ==
  /\ dvContent \in contents
  /\ dvPending = TRUE
  /\ dvQueries = <<>>
  /\ dvResults = NoResults
  /\ dvLoading = FALSE
  /\ dvError = Null
  /\ dvRuns = {}
  /\ dvFinished = {}

DvInit == DvInitWith(Documents)

\* The panel is not on screen.
DvIdle ==
  /\ dvContent = <<>>
  /\ dvPending = FALSE
  /\ dvQueries = <<>>
  /\ dvResults = NoResults
  /\ dvLoading = FALSE
  /\ dvError = Null
  /\ dvRuns = {}
  /\ dvFinished = {}

\* The parent renders the panel with another content.
DvContentChange(content) ==
  /\ ~dvPending
  /\ content # dvContent
  /\ Cardinality(dvRuns) < MaxRuns
  /\ dvContent' = content
  /\ dvPending' = TRUE
  /\ UNCHANGED <<dvQueries, dvResults, dvLoading, dvError, dvRuns, dvFinished>>
  /\ UNCHANGED dvFrame

\* The effect on [content] sets the queries; the effect on [queries] then
\* starts executeQueries unless there is no query.
DvExtractEffect ==
  /\ dvPending
  /\ dvPending' = FALSE
  /\ dvQueries' = extractQueries(dvContent)
  /\ IF Len(dvQueries') > 0
     THEN /\ dvLoading' = TRUE
          /\ dvRuns' = dvRuns \cup {StartRun(dvQueries')}
     ELSE UNCHANGED <<dvLoading, dvRuns>>
  /\ UNCHANGED <<dvContent, dvResults, dvError, dvFinished>>
  /\ UNCHANGED dvFrame

\* The request of a run is answered: the result is stored under the id of
\* the query, and either the next query is posted or the run finishes.
DvAnswer(run, answer) ==
  /\ run \in dvRuns
  /\ LET query == run.queries[run.index]
         next == NextQuery(run.index, Len(run.queries), answer)
         queryResults ==
           [id \in DOMAIN run.queryResults \cup {query.id} |->
              IF id = query.id THEN QueryResult(query.id, answer)
              ELSE run.queryResults[id]]
         failed == IF Failed(answer) THEN run.failed \cup {run.index}
                   ELSE run.failed
     IN  IF next <= Len(run.queries)
         THEN /\ dvRuns' = (dvRuns \ {run}) \cup
                   {[run EXCEPT !.index = next,
                                !.queryResults = queryResults,
                                !.posted = Append(@, run.queries[next].id),
                                !.failed = failed]}
              /\ UNCHANGED <<dvResults, dvError, dvLoading, dvFinished>>
         ELSE /\ dvRuns' = dvRuns \ {run}
              /\ dvResults' = queryResults
              /\ dvError' = Null
              /\ dvLoading' = FALSE
              /\ dvFinished' = {[queries |-> run.queries, posted |-> run.posted,
                                 failed |-> failed]}
  /\ UNCHANGED <<dvContent, dvPending, dvQueries>>
  /\ UNCHANGED dvFrame

DvNext ==
  \/ \E content \in Documents : DvContentChange(content)
  \/ DvExtractEffect
  \/ \E run \in dvRuns, answer \in Answers : DvAnswer(run, answer)

\* extractQueries applied to any content.
DvInitAny == DvInitWith(Contents)

DvExtractNext == DvExtractEffect

(***************************************************************************)
(* PDFViewer.  A blob URL is known by the request that produced the blob   *)
(* and the markdown the blob was generated from.                           *)
(***************************************************************************)
Markdowns == {"A", "B"}

PdfRequest(content) == [seq |-> pdfSeq + 1, markdown |-> content]

\* URL.createObjectURL(response.data)
createObjectURL(r) == [seq |-> r.seq, markdown |-> r.markdown]

\* generatePDF up to its await.
generatePDF(content) ==
  /\ pdfSeq < MaxPdfRequests
  /\ pdfGenerating' = TRUE
  /\ pdfError' = Null
  /\ pdfInflight' = pdfInflight \cup {PdfRequest(content)}
  /\ pdfSeq' = pdfSeq + 1

\* Mounted with some markdown: the effect has called generatePDF, and its
\* cleanup closes over the pdfUrl of the first render, which is null.
PdfInit ==
  /\ pdfMounted = TRUE
  /\ pdfContent \in Markdowns
  /\ pdfGenerating = TRUE
  /\ pdfUrl = {}
  /\ pdfError = Null
  /\ pdfInflight = {[seq |-> 1, markdown |-> pdfContent]}
  /\ pdfSeq = 1
  /\ pdfCaptured = {}
  /\ pdfCreated = {}
  /\ pdfRevoked = {}

\* The viewer is not on screen and has never been.
PdfIdle ==
  /\ pdfMounted = FALSE
  /\ pdfContent = "A"
  /\ pdfGenerating = TRUE
  /\ pdfUrl = {}
  /\ pdfError = Null
  /\ pdfInflight = {}
  /\ pdfSeq = 0
  /\ pdfCaptured = {}
  /\ pdfCreated = {}
  /\ pdfRevoked = {}

\* The parent renders the viewer with another markdownContent: the cleanup
\* of the last effect runs, then the effect of this render.
PdfContentChange(content) ==
  /\ pdfMounted
  /\ content # pdfContent
  /\ pdfContent' = content
  /\ pdfRevoked' = pdfRevoked \cup pdfCaptured
  /\ pdfCaptured' = pdfUrl
  /\ generatePDF(content)
  /\ UNCHANGED <<pdfMounted, pdfUrl, pdfCreated>>
  /\ UNCHANGED pdfFrame

\* The Refresh button of the toolbar, or Try Again of the error view.
PdfRefresh ==
  /\ pdfMounted
  /\ ~pdfGenerating
  /\ generatePDF(pdfContent)
  /\ UNCHANGED <<pdfMounted, pdfContent, pdfUrl, pdfCaptured, pdfCreated, pdfRevoked>>
  /\ UNCHANGED pdfFrame

\* generatePDF after its await.  The state of a viewer that is gone is not
\* set any more, the URL is created all the same.
PdfResponse(r, ok) ==
  /\ r \in pdfInflight
  /\ pdfInflight' = pdfInflight \ {r}
  /\ pdfCreated' = IF ok THEN pdfCreated \cup {createObjectURL(r)} ELSE pdfCreated
  /\ IF pdfMounted
     THEN /\ pdfUrl' = IF ok THEN {createObjectURL(r)} ELSE pdfUrl
          /\ pdfError' = IF ok THEN pdfError
                         ELSE "Failed to generate PDF. Please try again."
          /\ pdfGenerating' = FALSE
     ELSE UNCHANGED <<pdfUrl, pdfError, pdfGenerating>>
  /\ UNCHANGED <<pdfMounted, pdfContent, pdfSeq, pdfCaptured, pdfRevoked>>
  /\ UNCHANGED pdfFrame

\* The viewer is closed: the cleanup of the last effect runs.
PdfUnmount ==
  /\ pdfMounted
  /\ pdfMounted' = FALSE
  /\ pdfRevoked' = pdfRevoked \cup pdfCaptured
  /\ UNCHANGED <<pdfContent, pdfGenerating, pdfUrl, pdfError, pdfInflight, pdfSeq,
                 pdfCaptured, pdfCreated>>
  /\ UNCHANGED pdfFrame

PdfNext ==
  \/ \E content \in Markdowns : PdfContentChange(content)
  \/ PdfRefresh
  \/ \E r \in pdfInflight, ok \in BOOLEAN : PdfResponse(r, ok)
  \/ PdfUnmount

(***************************************************************************)
(* AppProvider: the theme and the state of the sidebar.                    *)
(***************************************************************************)
AppKeys == {"theme", "leftNavCollapsed"}

\* The initializer of the theme state.
savedTheme(st) == IF st["theme"] = "dark" THEN "dark" ELSE "light"

\* The initializer of the isLeftNavCollapsed state.
savedCollapsed(st) == st["leftNavCollapsed"] = "true"

\* String(isLeftNavCollapsed)
CollapsedAsString_current(isLeftNavCollapsed) ==
  IF isLeftNavCollapsed THEN "true" ELSE "false"

\* String(!isLeftNavCollapsed)
CollapsedAsString(isLeftNavCollapsed) ==
  IF ~isLeftNavCollapsed THEN "true" ELSE "false"

\* The first visit: nothing is stored.
AppInit ==
  /\ appStorage = [k \in AppKeys |-> Null]
  /\ appTheme = savedTheme(appStorage)
  /\ appCollapsed = savedCollapsed(appStorage)

AppIdle == AppInit

toggleTheme ==
  LET newTheme == IF appTheme = "light" THEN "dark" ELSE "light"
  IN  /\ appTheme' = newTheme
      /\ appStorage' = [appStorage EXCEPT !["theme"] = newTheme]
      /\ UNCHANGED appCollapsed
      /\ UNCHANGED appFrame

toggleLeftNav ==
  /\ appCollapsed' = ~appCollapsed
  /\ appStorage' = [appStorage EXCEPT !["leftNavCollapsed"] =
                      CollapsedAsString(appCollapsed)]
  /\ UNCHANGED appTheme
  /\ UNCHANGED appFrame

\* The page is loaded again: the state is set up from what is stored.
AppReload ==
  /\ appTheme' = savedTheme(appStorage)
  /\ appCollapsed' = savedCollapsed(appStorage)
  /\ UNCHANGED appStorage
  /\ UNCHANGED appFrame

AppNext ==
  \/ toggleTheme
  \/ toggleLeftNav
  \/ AppReload

(***************************************************************************)
(* Reader.  HTML is a sequence of elements; DOMPurify drops the elements   *)
(* that run script.                                                        *)
(***************************************************************************)
Elements == {"p", "script"}
Htmls == UNION {[1..n -> Elements] : n \in 0..MaxHtmlLen}
ReaderContents == {"", "m1", "m2"}

\* DOMPurify.sanitize
sanitize(html) == SelectSeq(html, LAMBDA e : e # "script")

\* What is passed as __html without sanitizing.
InnerHtml_raw(renderedContent) == renderedContent

\* What is passed as __html.
InnerHtml(renderedContent) == sanitize(renderedContent)

\* The render of Reader: the innerHTML of the preview, or nothing when the
\* loading or the error text is shown in its place.
ReaderDom(loading, err, renderedContent) ==
  IF loading THEN {}
  ELSE IF err # Null THEN {}
  ELSE {InnerHtml(renderedContent)}

\* The effect on [content, filePath].
ReaderEffect(content) ==
  IF content = ""
  THEN /\ rdRendered' = <<>>
       /\ UNCHANGED <<rdLoading, rdInflight>>
  ELSE /\ rdInflight < MaxReaderInflight
       /\ rdLoading' = TRUE
       /\ rdInflight' = rdInflight + 1
       /\ UNCHANGED rdRendered

\* Mounted with some content, after the effect has run.
RdInit ==
  /\ rdContent \in ReaderContents
  /\ rdRendered = <<>>
  /\ rdLoading = (rdContent # "")
  /\ rdError = Null
  /\ rdInflight = (IF rdContent # "" THEN 1 ELSE 0)
  /\ rdDom = ReaderDom(rdLoading, rdError, rdRendered)

\* The reader is not on screen.
RdIdle ==
  /\ rdContent = ""
  /\ rdRendered = <<>>
  /\ rdLoading = FALSE
  /\ rdError = Null
  /\ rdInflight = 0
  /\ rdDom = {}

\* The parent renders the reader with another content.
RdContentChange(content) ==
  /\ content # rdContent
  /\ rdContent' = content
  /\ ReaderEffect(content)
  /\ UNCHANGED rdError
  /\ rdDom' = ReaderDom(rdLoading', rdError', rdRendered')
  /\ UNCHANGED rdFrame

\* renderMarkdown after its await.
RdResponse(ok, html) ==
  /\ rdInflight > 0
  /\ rdInflight' = rdInflight - 1
  /\ IF ok
     THEN rdRendered' = html /\ rdError' = Null
     ELSE rdRendered' = rdRendered /\ rdError' = "Failed to render content"
  /\ rdLoading' = FALSE
  /\ UNCHANGED rdContent
  /\ rdDom' = ReaderDom(rdLoading', rdError', rdRendered')
  /\ UNCHANGED rdFrame

RdNext ==
  \/ \E content \in ReaderContents : RdContentChange(content)
  \/ \E ok \in BOOLEAN, html \in Htmls : RdResponse(ok, html)

(***************************************************************************)
(* The routes of the application.  An element is what a route renders: a   *)
(* page, the login form, the loading indicator, or a redirect.             *)
(***************************************************************************)
Element(kind, to) == [kind |-> kind, to |-> to]

\* The value AuthProvider gives to its context (login and logout left out).
ContextValue == [user |-> user, isLoading |-> isLoading, error |-> error]

\* A field a component reads from the context is undefined, which is falsy,
\* when the provider does not give it.
Truthy(value, field) == field \in DOMAIN value /\ value[field] = TRUE

ProtectedRoute(value) ==
  IF value.isLoading THEN Element("loading", Null)
  ELSE IF ~Truthy(value, "isAuthenticated") THEN Element("redirect", "/login")
  ELSE Element("children", Null)

LoginPage(value) ==
  IF value.user # Null THEN Element("redirect", "/dashboard")
  ELSE Element("login form", Null)

AppRoutes(path, value) ==
  IF path = "/login" THEN LoginPage(value)
  ELSE IF path \in {"/", "/editor"} THEN ProtectedRoute(value)
  ELSE Element("redirect", "/")

\* The element of the current route is a Navigate: the location changes.
RouteRedirect ==
  /\ mounted
  /\ AppRoutes(route, ContextValue).kind = "redirect"
  /\ route' = AppRoutes(route, ContextValue).to
  /\ interceptors' \in NavEffect(interceptors, route, route', storage)
  /\ UNCHANGED <<mounted, storage, user, isLoading, error, inflight>>
  /\ UNCHANGED authFrame

RoutesNext ==
  \/ Mount
  \/ LoginSubmit
  \/ SendAxios
  \/ SendFetch
  \/ \E r \in inflight, status \in Statuses : AxiosResponse(r, status)
  \/ \E r \in inflight, status \in Statuses : FetchResponse(r, status)
  \/ Logout
  \/ \E to \in Routes : Navigate(to)
  \/ Reload
  \/ RouteRedirect

(***************************************************************************)
(* EditorPage, deleting the file.  A path is a sequence of characters; the *)
(* character %2F stands for the three characters of an encoded slash.      *)
(* fileService.deleteFile is an axios request, so the response interceptor *)
(* of AuthProvider runs before the continuation of handleDeleteFile.       *)
(***************************************************************************)
PathChars == {"/", "a", "b"}

\* `s` has a slash at position i and another one right after it.
DoubleSlash(s) == \E i \in 1..(Len(s) - 1) : s[i] = "/" /\ s[i + 1] = "/"

\* The paths of files the backend lists: at least one character, no empty
\* name between two slashes, and a name after the last slash.
FilePaths ==
  {s \in UNION {[1..n -> PathChars] : n \in 1..MaxPathLen} :
     s[Len(s)] # "/" /\ ~DoubleSlash(s)}

decodeURIComponent(s) == [i \in DOMAIN s |-> IF s[i] = "%2F" THEN "/" ELSE s[i]]
encodeURIComponent(s) == [i \in DOMAIN s |-> IF s[i] = "/" THEN "%2F" ELSE s[i]]

RECURSIVE Split(_, _)
\* String.prototype.split: the pieces of s between the separators, of which
\* there is always at least one.
Split(s, sep) ==
  IF \A i \in DOMAIN s : s[i] # sep THEN <<s>>
  ELSE LET i == CHOOSE k \in DOMAIN s :
                  s[k] = sep /\ \A j \in 1..(k - 1) : s[j] # sep
       IN <<SubSeq(s, 1, i - 1)>> \o Split(SubSeq(s, i + 1, Len(s)), sep)

RECURSIVE Join(_, _)
\* Array.prototype.join
Join(parts, sep) ==
  IF parts = <<>> THEN <<>>
  ELSE IF Len(parts) = 1 THEN parts[1]
  ELSE parts[1] \o <<sep>> \o Join(Tail(parts), sep)

\* Array.prototype.pop, for the array that is left.
Pop(parts) == SubSeq(parts, 1, Len(parts) - 1)

\* parentPath of handleDeleteFile.
parentPath(decodedPath) == Join(Pop(Split(decodedPath, "/")), "/")

RECURSIVE Text(_)
\* The string of a sequence of characters.
Text(s) == IF s = <<>> THEN "" ELSE Head(s) \o Text(Tail(s))

\* The location handleDeleteFile navigates to; the empty string is falsy.
FilesLocation(decodedPath) ==
  LET parent == parentPath(decodedPath)
  IN "/files/" \o Text(encodeURIComponent(IF parent = <<>> THEN <<"/">> ELSE parent))

DelInit ==
  /\ delName \in FilePaths
  /\ delDialog = FALSE
  /\ delInflight = 0
  /\ delToast = "none"

\* The page shows no file.
DelIdle ==
  /\ delName = <<>>
  /\ delDialog = FALSE
  /\ delInflight = 0
  /\ delToast = "none"

\* The Delete item of the menu in the toolbar of the page.
onDeleteDialogOpen ==
  /\ route = "/editor" /\ ~epLoading /\ epError = Null
  /\ ~delDialog
  /\ delDialog' = TRUE
  /\ UNCHANGED <<delName, delInflight, delToast>>
  /\ UNCHANGED <<authVars, files, epVars>>
  /\ UNCHANGED delFrame

\* The Cancel button of the dialog.
onDeleteDialogClose ==
  /\ delDialog
  /\ delDialog' = FALSE
  /\ UNCHANGED <<delName, delInflight, delToast>>
  /\ UNCHANGED <<authVars, files, epVars>>
  /\ UNCHANGED delFrame

\* handleDeleteFile up to its await: the Delete button of the dialog, which
\* stays enabled while a request is in flight.
handleDeleteFile ==
  /\ delDialog
  /\ delName # <<>>
  /\ delInflight < MaxDeletes
  /\ delInflight' = delInflight + 1
  /\ UNCHANGED <<delName, delDialog, delToast>>
  /\ UNCHANGED <<authVars, files, epVars>>
  /\ UNCHANGED delFrame

\* The response interceptor, then handleDeleteFile after its await with its
\* catch and finally blocks.
DeleteResponse(status) ==
  /\ delInflight > 0
  /\ delInflight' = delInflight - 1
  /\ LET loggedOut == status = 401
     IN /\ storage' = (IF loggedOut THEN removeToken(storage) ELSE storage)
        /\ user' = (IF loggedOut THEN Null ELSE user)
        /\ IF status = 200
           THEN /\ delToast' = "File deleted"
                /\ route' = FilesLocation(decodeURIComponent(delName))
           ELSE /\ delToast' = "Error deleting file"
                /\ route' = (IF loggedOut THEN "/login" ELSE route)
  /\ delDialog' = FALSE
  /\ interceptors' \in NavEffect(interceptors, route, route', storage')
  /\ UNCHANGED <<mounted, isLoading, error, inflight>>
  /\ UNCHANGED <<delName, files, epVars>>
  /\ UNCHANGED delFrame

\* The page with its editor, the dialog and the routes around it.
DelNext ==
  \/ \E c \in Typed : route = "/editor" /\ EpEdit(c)
  \/ onDeleteDialogOpen
  \/ onDeleteDialogClose
  \/ handleDeleteFile
  \/ \E status \in Statuses : DeleteResponse(status)
  \/ RouteRedirect

(***************************************************************************)
(* One specification for each component                                    *)
(***************************************************************************)
InitAuth == AuthInit /\ BackendInit /\ EpIdle /\ EdIdle /\ SIdle /\ FIdle /\ KIdle
  /\ DvIdle
  /\ PdfIdle
  /\ AppIdle
  /\ RdIdle
  /\ DelIdle
SpecAuth == InitAuth /\ [][AuthNext]_vars

InitEditorPage == EpInit /\ BackendInit /\ AuthIdle /\ EdIdle /\ SIdle /\ FIdle /\ KIdle
  /\ DvIdle
  /\ PdfIdle
  /\ AppIdle
  /\ RdIdle
  /\ DelIdle
SpecEditorPage == InitEditorPage /\ [][EpNext]_vars

InitEditor == EdInit /\ BackendInit /\ AuthIdle /\ EpIdle /\ SIdle /\ FIdle /\ KIdle
  /\ DvIdle
  /\ PdfIdle
  /\ AppIdle
  /\ RdIdle
  /\ DelIdle
SpecEditor == InitEditor /\ [][EdNext]_vars

\* Time passes and every request is answered.
InitEditorLive == InitEditor
  /\ DelIdle
SpecEditorLive ==
  /\ InitEditorLive /\ [][EdLiveNext]_vars
  /\ WF_vars(EdTick) /\ WF_vars(EdSaved) /\ WF_vars(EdLoaded)

InitSearch == SInit /\ BackendInit /\ AuthIdle /\ EpIdle /\ EdIdle /\ FIdle /\ KIdle
  /\ DvIdle
  /\ PdfIdle
  /\ AppIdle
  /\ RdIdle
  /\ DelIdle
SpecSearch == InitSearch /\ [][SNext]_vars

InitFetch == FInit /\ BackendInit /\ AuthIdle /\ EpIdle /\ EdIdle /\ SIdle /\ KIdle
  /\ DvIdle
  /\ PdfIdle
  /\ AppIdle
  /\ RdIdle
  /\ DelIdle
SpecFetch == InitFetch /\ [][FNext]_vars

InitKanban == KInit /\ BackendInit /\ AuthIdle /\ EpIdle /\ EdIdle /\ SIdle /\ FIdle
  /\ DvIdle
  /\ PdfIdle
  /\ AppIdle
  /\ RdIdle
  /\ DelIdle
SpecKanban == InitKanban /\ [][KNext]_vars

InitDataview == DvInit /\ BackendInit /\ AuthIdle /\ EpIdle /\ EdIdle /\ SIdle /\ FIdle
  /\ KIdle
  /\ PdfIdle
  /\ AppIdle
  /\ RdIdle
  /\ DelIdle
SpecDataview == InitDataview /\ [][DvNext]_vars

InitExtract == DvInitAny /\ BackendInit /\ AuthIdle /\ EpIdle /\ EdIdle /\ SIdle
  /\ FIdle /\ KIdle
  /\ PdfIdle
  /\ AppIdle
  /\ RdIdle
  /\ DelIdle
SpecExtract == InitExtract /\ [][DvExtractNext]_vars

InitPdf == PdfInit /\ BackendInit /\ AuthIdle /\ EpIdle /\ EdIdle /\ SIdle /\ FIdle
  /\ KIdle /\ DvIdle
  /\ AppIdle
  /\ RdIdle
  /\ DelIdle
SpecPdf == InitPdf /\ [][PdfNext]_vars

InitRoutes == AuthInit /\ BackendInit /\ EpIdle /\ EdIdle /\ SIdle /\ FIdle /\ KIdle
  /\ DvIdle /\ PdfIdle /\ AppIdle /\ RdIdle
  /\ DelIdle
SpecRoutes == InitRoutes /\ [][RoutesNext]_vars

\* A redirect that is rendered is followed.
SpecRoutesFair == SpecRoutes /\ WF_vars(RouteRedirect)

InitReader == RdInit /\ BackendInit /\ AuthIdle /\ EpIdle /\ EdIdle /\ SIdle /\ FIdle
  /\ KIdle /\ DvIdle /\ PdfIdle /\ AppIdle
  /\ DelIdle
SpecReader == InitReader /\ [][RdNext]_vars

\* Everything that touches local storage: AuthProvider and AppProvider.  The
\* route changes with login and logout only.
InitStorage == AuthInit /\ AppInit /\ BackendInit /\ EpIdle /\ EdIdle /\ SIdle /\ FIdle
  /\ KIdle /\ DvIdle /\ PdfIdle
  /\ RdIdle
  /\ DelIdle
StorageNext ==
  \/ Mount
  \/ LoginSubmit
  \/ SendAxios
  \/ SendFetch
  \/ \E r \in inflight, status \in Statuses : AxiosResponse(r, status)
  \/ \E r \in inflight, status \in Statuses : FetchResponse(r, status)
  \/ Logout
  \/ Reload
  \/ toggleTheme
  \/ toggleLeftNav
  \/ AppReload
SpecStorage == InitStorage /\ [][StorageNext]_vars

(***************************************************************************)
(* The whole client                                                        *)
(***************************************************************************)
\* A user is logged in and looks at the editor page.
AuthLoggedIn ==
  /\ mounted = TRUE
  /\ storage = [k \in StorageKeys |-> "t1"]
  /\ user \in Users
  /\ isLoading = FALSE
  /\ error = Null
  /\ route = "/editor"
  /\ interceptors = <<"t1">>
  /\ inflight = {}

\* The page has loaded file p.
EpLoaded(p) ==
  /\ epPath = p
  /\ epContent = files[p]
  /\ epOriginal = files[p]
  /\ epLoading = FALSE
  /\ epError = Null
  /\ epLoads = {}
  /\ epSeq = 1
  /\ epAnswered = <<[seq |-> 1, path |-> p, ok |-> TRUE]>>
  /\ epUnsaved = FALSE
  /\ epPrompt = FALSE
  /\ epSaves = {}
  /\ epSaveSeq = 0
  /\ epRecorded = {files[p]}

InitDelete == DelInit /\ BackendInit /\ AuthLoggedIn /\ EpLoaded("A") /\ EdIdle /\ SIdle
  /\ FIdle /\ KIdle /\ DvIdle /\ PdfIdle /\ AppIdle /\ RdIdle
SpecDelete == InitDelete /\ [][DelNext]_vars

Init == AuthInit /\ BackendInit /\ EpInit /\ EdInit /\ SInit /\ FInit /\ KInit
  /\ DvInit
  /\ PdfInit
  /\ AppInit
  /\ RdInit
  /\ DelInit
Next ==
  \/ AuthNext
  \/ EpNext
  \/ EdNext
  \/ SNext
  \/ FNext
  \/ KNext
  \/ DvNext
  \/ PdfNext
  \/ AppNext
  \/ RdNext
  \/ DelNext
Spec == Init /\ [][Next]_vars

\* C1: every response with status 401, to an axios request or to a request of
\* the fetch wrapper, removes the stored token, sets the user to null and
\* sets the route to /login.
LoggedOut == storage["token"] = Null /\ user = Null /\ route = "/login"

C1_Every401LogsOut ==
  [][\A r \in inflight :
       (AxiosResponse(r, 401) \/ FetchResponse(r, 401)) => LoggedOut']_vars

\* C2: every request carries the token that is in local storage when it is sent.
C2_HeaderIsStoredToken ==
  \A r \in inflight : r.auth = r.stored

\* C3: a pending load is never cancelled (it leaves the pending set only when
\* its response arrives), and every successful response that arrives, for the
\* latest request or not, becomes content and originalContent while the
\* route stays as it is.
C3_ResponseAlwaysApplied ==
  [][/\ \A r \in epLoads \ epLoads' :
          /\ Len(epAnswered') = Len(epAnswered) + 1
          /\ epAnswered'[Len(epAnswered')].seq = r.seq
     /\ (Len(epAnswered') > Len(epAnswered) /\ epAnswered'[Len(epAnswered')].ok) =>
          /\ epContent' = files[epAnswered'[Len(epAnswered')].path]
          /\ epOriginal' = files[epAnswered'[Len(epAnswered')].path]
          /\ epPath' = epPath]_vars

\* The route shows B, both responses have arrived without an error, and the
\* page holds A's content.
C3_Witness ==
  /\ epPath = "B" /\ epLoads = {} /\ ~epLoading /\ epError = Null
  /\ epContent = files["A"] /\ epOriginal = files["A"]
  /\ Len(epAnswered) = 2
  /\ epAnswered[1] = [seq |-> 2, path |-> "B", ok |-> TRUE]
  /\ epAnswered[2] = [seq |-> 1, path |-> "A", ok |-> TRUE]

\* C4: a save request carries only a content value that stayed unchanged for
\* the whole debounce interval, and no save request is sent while the user
\* has changed the content within the last debounce interval.
C4_SaveOnlyAfterQuietInterval ==
  \A s \in edLastSave : s.stable /\ s.quiet

C4_SavedValueWasStable ==
  \A s \in edLastSave : s.stable

\* C5 as claimed: no request of the Search component, search query or
\* suggestion fetch, carries an input value that did not stay unchanged for
\* the 300 ms debounce interval.
C5_EveryRequestDebounced ==
  \A s \in sLastSent : s.stable

\* C5 as amended: a search query request carries only an input value that
\* stayed unchanged for the debounce interval; a suggestion fetch is sent at
\* once with the input value just entered.
C5_SearchDebounced ==
  /\ [](\A s \in sLastSent : s.kind = "search" => s.stable)
  /\ [][(sQuery' # sQuery /\ Len(sQuery') > 1) =>
          \E s \in sLastSent' : s.kind = "suggest" /\ s.query = sQuery']_vars

\* A search request has gone out for a value typed earlier, while the input
\* already holds another value.
C5_Witness ==
  /\ \E s \in sLastSent : s.kind = "search" /\ s.stable /\ s.query # sQuery
  /\ sAge < SearchDebounceMs

\* C6: a failed fetch of a component is attempted a second time before the
\* failure is surfaced, and no request is attempted more than twice.
C6_OneRetryBeforeFailure ==
  \A o \in fLast : o.attempts <= 2 /\ (~o.ok => o.attempts = 2)

\* C7: every failed request of a component is caught and ends in an error
\* indication the user sees, inline text or a toast.
C7_FailureSurfaced ==
  \A o \in fLast : ~o.ok => o.caught /\ o.shown \in {"inline", "toast"}

Without(items, card) == SelectSeq(items, LAMBDA x : x # card)

RECURSIVE Occurrences(_, _)
Occurrences(items, card) ==
  IF items = <<>> THEN 0
  ELSE (IF Head(items) = card THEN 1 ELSE 0) + Occurrences(Tail(items), card)

RECURSIVE OnBoard(_, _, _)
OnBoard(columns, ids, card) ==
  IF ids = {} THEN 0
  ELSE LET c == CHOOSE x \in ids : TRUE
       IN  Occurrences(columns[c], card) + OnBoard(columns, ids \ {c}, card)

\* C8: on a board that is not read-only, a drag to another place moves
\* exactly the dragged card: it ends at the destination index of the
\* destination column, the other cards of every column keep their order, and
\* every card is on the board as often as before.
C8_DragMovesExactlyTheCard ==
  [][\A result \in DragResults : \A d \in result.destination :
       LET from == result.source
           card == kColumns[from.droppableId][from.index + 1]
       IN  (/\ handleDragEnd(result)
            /\ ~kReadOnly
            /\ (d.droppableId # from.droppableId \/ d.index # from.index)) =>
             /\ DOMAIN kColumns' = DOMAIN kColumns
             /\ Len(kColumns'[d.droppableId]) > d.index
             /\ kColumns'[d.droppableId][d.index + 1] = card
             /\ \A c \in DOMAIN kColumns :
                   Without(kColumns'[c], card) = Without(kColumns[c], card)
             /\ \A x \in Cards :
                   OnBoard(kColumns', DOMAIN kColumns, x)
                     = OnBoard(kColumns, DOMAIN kColumns, x)]_vars

C8_Witness ==
  /\ kInflight["toMarkdown"] > 0
  /\ \E g \in kLastDrag : g.returned = "moved" /\ ~g.across
  /\ \E c \in DOMAIN kColumns : Len(kColumns[c]) = Cardinality(Cards)

C8_WitnessAcross ==
  /\ kInflight["toMarkdown"] > 0
  /\ \E g \in kLastDrag : g.returned = "moved" /\ g.across
  /\ \A c \in DOMAIN kColumns : Len(kColumns[c]) > 0

\* A fenced dataview block: an opening fence with the word dataview and
\* white space right after it, a body without a fence, and the next fence,
\* which closes it.  A fence that closes a block opens none.
ClosingFence(content, i) == Least({j \in (i + 2)..Len(content) : content[j] = Fence})

Openings(content) ==
  {i \in 1..(Len(content) - 2) :
     /\ content[i] = Fence
     /\ content[i + 1] = Dataview
     /\ \E j \in (i + 2)..Len(content) : content[j] = Fence}

DataviewBlocks(content) ==
  CHOOSE B \in SUBSET Openings(content) :
    \A i \in Openings(content) :
      i \in B <=> ~\E k \in B : k < i /\ i <= ClosingFence(content, k)

BlockBody(content, i) == SubSeq(content, i + 2, ClosingFence(content, i) - 1)

Holds(body, word) == \E k \in 1..Len(body) : body[k] = word

\* The blocks that are queries, in document order.
QueryBlocks(content) ==
  LET qs == {i \in DataviewBlocks(content) :
               Holds(BlockBody(content, i), Table) \/ Holds(BlockBody(content, i), List)}
  IN  CHOOSE s \in [1..Cardinality(qs) -> qs] :
        \A a, b \in 1..Cardinality(qs) : a < b => s[a] < s[b]

QueryIds == [n \in 0..MaxContentLen |-> "query-" \o ToString(n)]

\* C9: extractQueries yields one query for each fenced dataview block with
\* TABLE (type table) or else LIST (type list) in its body, in the order of the
\* document, skips the other blocks, and numbers the ids query-0, query-1, ...
\* so that no two are equal.
C9_OneQueryPerBlock ==
  ~dvPending =>
    LET blocks == QueryBlocks(dvContent)
    IN  /\ Len(dvQueries) = Len(blocks)
        /\ \A n \in 1..Len(dvQueries) :
             /\ dvQueries[n].source = BlockBody(dvContent, blocks[n])
             /\ dvQueries[n].type =
                  (IF Holds(dvQueries[n].source, Table) THEN "table" ELSE "list")
             /\ dvQueries[n].id = QueryIds[n - 1]
        /\ \A m, n \in 1..Len(dvQueries) :
             dvQueries[m].id = dvQueries[n].id => m = n

C9_Witness ==
  /\ ~dvPending
  /\ Cardinality(DataviewBlocks(dvContent)) = 2
  /\ Len(dvQueries) = 1
  /\ dvQueries[1].type = "list"
  /\ ~Holds(BlockBody(dvContent, Least(DataviewBlocks(dvContent))), List)

C9_WitnessTwo ==
  /\ ~dvPending
  /\ Len(dvQueries) = 2
  /\ dvQueries[1].type = "table"
  /\ dvQueries[2].type = "list"

C9_WitnessBoth ==
  /\ ~dvPending
  /\ Len(dvQueries) = 1
  /\ dvQueries[1].type = "table" /\ Holds(dvQueries[1].source, List)

\* C10: a run of executeQueries posts each query once, one at a time and in
\* the order of the list, whichever requests fail; when it finishes, results
\* holds one entry for each query id, with an error message for the failed
\* queries and for no other.
C10_EveryQueryPostedOnce ==
  /\ \A run \in dvRuns :
       /\ Len(run.posted) = run.index
       /\ Cardinality(DOMAIN run.queryResults) = run.index - 1
       /\ \A n \in 1..run.index : run.posted[n] = run.queries[n].id
  /\ \A f \in dvFinished :
       /\ f.posted = [n \in 1..Len(f.queries) |-> f.queries[n].id]
       /\ DOMAIN dvResults = {f.queries[n].id : n \in 1..Len(f.queries)}
       /\ \A n \in 1..Len(f.queries) :
            /\ dvResults[f.queries[n].id].id = f.queries[n].id
            /\ dvResults[f.queries[n].id].error # Null <=> n \in f.failed

C10_Witness ==
  \E f \in dvFinished :
    /\ Len(f.queries) = 2
    /\ f.failed = {1}
    /\ dvResults[f.queries[2].id].error = Null

\* The document is in the frame.
PdfInFrame == pdfMounted /\ ~pdfGenerating /\ pdfError = Null /\ pdfUrl # {}

\* The Download and Print buttons are enabled.
PdfButtonsEnabled == pdfMounted /\ ~pdfGenerating /\ pdfUrl # {}

\* C11: a URL the PDF viewer shows in the frame or offers for download and
\* print is the blob the latest generation request produced from the current
\* markdownContent.
C11_ShownUrlIsCurrent ==
  (PdfInFrame \/ PdfButtonsEnabled) =>
    \A u \in pdfUrl : u.markdown = pdfContent /\ u.seq = pdfSeq

\* C18: after the PDF viewer has unmounted, every URL it created has been
\* revoked.
C18_NoUrlLeftAfterUnmount ==
  ~pdfMounted => pdfCreated \subseteq pdfRevoked

C13_InsertedHtmlIsSanitized ==
  /\ \A h \in rdDom :
       /\ h = sanitize(rdRendered)
       /\ \A i \in 1..Len(h) : h[i] # "script"
  /\ (rdLoading \/ rdError # Null) => rdDom = {}

C13_Witness ==
  /\ rdDom # {}
  /\ \E i \in 1..Len(rdRendered) : rdRendered[i] = "script"
  /\ \E i \in 1..Len(rdRendered) : rdRendered[i] = "p"

\* C14: after a successful login the redirects come to an end at a route
\* that renders its page.
C14_NavigationSettles ==
  (mounted /\ user # Null /\ ~isLoading) ~>
    (AppRoutes(route, ContextValue).kind = "children" \/ user = Null \/ isLoading)

\* C15: a protected route renders its children exactly when authentication
\* is not loading and a user is logged in; it shows the loading indicator
\* while loading and redirects to /login otherwise.
C15_ProtectedRoute ==
  route \in {"/", "/editor"} =>
    LET element == AppRoutes(route, ContextValue)
    IN  /\ element.kind = "children" <=> (~isLoading /\ user # Null)
        /\ isLoading => element.kind = "loading"
        /\ (~isLoading /\ user = Null) => element = Element("redirect", "/login")

\* C16: when the user stops editing and every save succeeds, the final
\* content is saved in the end: no save is left in flight and originalContent
\* equals content.
C16_EventuallySaved ==
  <>[][~EdUserActs]_vars => <>[](edSaves = {} /\ edOriginal = edContent)

\* C17 as stated: hasUnsavedChanges is true exactly when the content differs
\* from the content of the last load or save that succeeded, and the Save
\* button and the leave-page prompt are active exactly when the flag is
\* true, in every state of the page.
C17_UnsavedFlagEverywhere ==
  /\ epUnsaved = (epRecorded # {} /\ epContent \notin epRecorded)
  /\ (SaveButton = "enabled") = epUnsaved
  /\ LeavePrompt = epUnsaved

\* C17 amended: the flag and the leave-page prompt are as stated in every
\* state; the Save button is enabled exactly when the flag is true whenever
\* the page renders it, and the page renders no Save button while it is
\* loading a file or showing a load error, whatever the flag.
C17_UnsavedFlag ==
  /\ epUnsaved = (epRecorded # {} /\ epContent \notin epRecorded)
  /\ epRecorded # {} => epOriginal \in epRecorded
  /\ LeavePrompt = epUnsaved
  /\ (SaveButton = "enabled") = (epUnsaved /\ ~epLoading /\ epError = Null)
  /\ (SaveButton = "disabled") = (~epUnsaved /\ ~epLoading /\ epError = Null)

\* A save of x has succeeded after the user had typed y while it was in
\* flight: x is recorded and the page is still flagged as unsaved.
C17_Witness ==
  /\ epSeq = 1 /\ epLoads = {}
  /\ epSaveSeq = 1 /\ epSaves = {}
  /\ epRecorded = {"x"} /\ epContent = "y"
  /\ files[epPath] = "x"
  /\ epUnsaved /\ LeavePrompt /\ SaveButton = "enabled"

\* C19: at startup, with no stored token no request is made and isLoading
\* becomes false; with a stored token the request for the current user is
\* sent; when its answer arrives isLoading becomes false, a success sets the
\* user, and a failure removes the token and leaves the user null.
C19_StartupCheck ==
  [][ /\ Mount /\ storage["token"] = Null => inflight' = inflight /\ ~isLoading'
      /\ Mount /\ storage["token"] # Null =>
            /\ \E r \in inflight' \ inflight : r.via = "axios" /\ r.purpose = "checkAuth"
            /\ isLoading' /\ user' = Null
      /\ \A r \in inflight, s \in Statuses :
            r.purpose = "checkAuth" /\ AxiosResponse(r, s) =>
              /\ ~isLoading'
              /\ s = 200 => user' \in Users
              /\ s # 200 => storage'["token"] = Null /\ user' = Null
    ]_vars

\* While the startup request is unanswered the provider is loading and no
\* user is set.
C19_LoadingUntilAnswered ==
  (\E r \in inflight : r.purpose = "checkAuth") => isLoading /\ user = Null

\* The application was started at / with token t1 stored, and the request
\* for the current user has failed: the token is gone, no user is set and
\* the provider is no longer loading.
C19_Witness ==
  /\ mounted /\ route = "/" /\ interceptors = <<"t1">>
  /\ storage["token"] = Null /\ user = Null /\ error = Null
  /\ ~isLoading /\ inflight = {}

\* C20: a drag end on a read-only board, without a destination, or with the
\* destination equal to the source column and index changes nothing: the
\* columns are the same and no request is sent (onBoardUpdate is called only
\* in the continuation of the toMarkdown request).
C20_NoOpDragEnd ==
  [][\A result \in DragResults :
        /\ handleDragEnd(result)
        /\ \/ kReadOnly
           \/ result.destination = {}
           \/ result.destination = {result.source}
        => /\ kColumns' = kColumns
           /\ kInflight' = kInflight
           /\ <<kReadOnly, kLoading, kError>>' = <<kReadOnly, kLoading, kError>>
    ]_vars

\* A card of a loaded, editable board has just been dropped where it was
\* taken from, and no request is in flight.
C20_Witness ==
  /\ ~kReadOnly /\ ~kLoading /\ kError = Null
  /\ kColumns # NoColumns
  /\ kLastDrag = {[returned |-> "same position", across |-> FALSE]}
  /\ \A e \in Endpoints : kInflight[e] = 0

\* The directory a file is in: what stands before the last slash of its
\* path, and the root when there is no slash or nothing before it.
ParentDirectory(path) ==
  LET slashes == {i \in DOMAIN path : path[i] = "/"}
      last == IF slashes = {} THEN 0
              ELSE CHOOSE i \in slashes : \A j \in slashes : j <= i
  IN IF last <= 1 THEN <<"/">> ELSE SubSeq(path, 1, last - 1)

\* The location of a directory in the file browser.
DirectoryLocation(dir) == "/files/" \o Text(encodeURIComponent(dir))

C21_DeleteOutcomeWith401 ==
  [][\A status \in Statuses :
        DeleteResponse(status) =>
          /\ ~delDialog'
          /\ epContent' = epContent
          /\ IF status = 200
             THEN /\ route' = DirectoryLocation(ParentDirectory(delName))
                  /\ delToast' = "File deleted"
             ELSE /\ delToast' = "Error deleting file"
                  /\ IF status = 401
                     THEN route' = "/login" /\ storage'["token"] = Null /\ user' = Null
                     ELSE route' = route /\ storage' = storage /\ user' = user
    ]_vars

\* C21: the location the app is taken to after a delete is one the route
\* table has a page for, and not one it redirects away from.
C21_DirectoryIsARoute ==
  route \notin Routes => AppRoutes(route, ContextValue).kind # "redirect"

\* A delete of a file in directory a has succeeded and the app has been
\* taken to the location of that directory.
C21_Witness ==
  /\ route = "/files/a" /\ delToast = "File deleted" /\ ~delDialog
  /\ delName = <<"a", "/", "b">>

\* C22: no save request carries, to the path of one file, the content that
\* was loaded from another file: nobody types the content of a file of the
\* backend, so such a request can only stem from the file opened before.
C22_NoContentOfAnotherFile ==
  \A r \in edSaves : \A p \in Paths \ {r.path} : r.content # BackendFiles[p]
====
